---- MODULE Spec2Model ----
(***************************************************************************)
(* A model of balance.py: the Row transaction record, its month arithmetic *)
(* and tag extraction, the two autosplit algorithms, the filter evaluator  *)
(* and the grid accumulator.                                               *)
(*                                                                         *)
(* Representation.                                                         *)
(*  - A Python str is a sequence of one-character strings, so that the     *)
(*    regular expressions, split(), int(), float(), strptime(),            *)
(*    isoformat() and capitalize() are modelled by what they do to the     *)
(*    characters.                                                          *)
(*  - A decimal.Decimal amount is an integer number of hundredths: 750 is  *)
(*    Decimal('7.5'), within the 28 digits of the decimal context.  An int *)
(*    (each_value) is a plain integer.                                     *)
(*  - A datetime.date is a record [year, month, day].                      *)
(*  - None is the empty sequence: every tag a regular expression of the    *)
(*    program extracts holds at least one letter.                          *)
(*  - A raised exception is a result with a non-empty err field.           *)
(***************************************************************************)
EXTENDS Integers, Sequences, FiniteSets, TLC

VARIABLES
    pc,              \* the position of the modelled run
    raw,             \* the raw tuple (value, date, comment, direction)
    row,             \* the result of Row(*raw): [err, row]
    method,          \* the method handed to autosplit
    out,             \* the result of row.autosplit(method): [err, rows]
    child,           \* the index in out.rows of the record split again
    again,           \* the result of out.rows[child].autosplit(method)
    rows,            \* the sequence of records given to the filter / the grid
    filter_strings,  \* the filter set given to apply_filter_strings
    now,             \* the date datetime.utcnow() yields in Row.rel_months
    result,          \* the result of apply_filter_strings: [err, rows]
    months,          \* grid_accumulate: the set of months seen
    tags,            \* grid_accumulate: the set of tags seen
    grid,            \* grid_accumulate: tag -> month -> [sum, last]
    totals,          \* grid_accumulate: month or 'total' -> sum
    month_date,      \* the date given to Row._month_add
    month_incr,      \* the incr given to Row._month_add
    month_there,     \* the result of _month_add(month_date, month_incr)
    month_back       \* the result of _month_add(month_there, -month_incr)

monthvars == <<month_date, month_incr, month_there, month_back>>

vars == <<pc, raw, row, method, out, child, again, rows, filter_strings, now,
          result, months, tags, grid, totals, monthvars>>

-----------------------------------------------------------------------------
(* Bounds of the model.                                                    *)

\* The increments of the month arithmetic run over every number of months up
\* to MaxCarry years and one month either way, and jump FarCarry years.
MaxCarry == 3
FarCarry == 40

\* The largest magnitude, in whole units, of a record split in proportion.
MaxWhole == 28

\* The largest count of a !months directive among the inputs.
MaxCount == 3
\* The largest raw magnitude, in half units of currency.
MaxHalves == 7
\* The longest sequence of records filtered.
MaxRows == 2
\* The longest filter set.
MaxFilters == 2
\* The longest sequence of records accumulated into a grid.
MaxGridRows == 3

-----------------------------------------------------------------------------
(* Characters and strings.                                                 *)

LowerCase == <<"a","b","c","d","e","f","g","h","i","j","k","l","m",
               "n","o","p","q","r","s","t","u","v","w","x","y","z">>
UpperCase == <<"A","B","C","D","E","F","G","H","I","J","K","L","M",
               "N","O","P","Q","R","S","T","U","V","W","X","Y","Z">>
Digits == <<"0","1","2","3","4","5","6","7","8","9">>

\* The characters of the model in code point order, for str comparison.
CodePoints == <<" ","!","#","%","(",")","+","-",".">> \o Digits
              \o <<":","<","=",">">> \o UpperCase \o <<"^","_">> \o LowerCase
              \o <<"~">>

Range(s) == { s[i] : i \in DOMAIN s }
IndexOf(c, s) == CHOOSE i \in DOMAIN s : s[i] = c
IsLower(c) == c \in Range(LowerCase)
IsUpper(c) == c \in Range(UpperCase)
IsAlpha(c) == IsLower(c) \/ IsUpper(c)
IsDigit(c) == c \in Range(Digits)
IsSpace(c) == c = " "
Ord(c) == IndexOf(c, CodePoints)
ToLower(c) == IF IsUpper(c) THEN LowerCase[IndexOf(c, UpperCase)] ELSE c
ToUpper(c) == IF IsLower(c) THEN UpperCase[IndexOf(c, LowerCase)] ELSE c

None == <<>>

\* str.lower() and str.capitalize()
Lower(s) == [ i \in DOMAIN s |-> ToLower(s[i]) ]
Capitalize(s) == [ i \in DOMAIN s |-> IF i = 1 THEN ToUpper(s[i]) ELSE ToLower(s[i]) ]

\* str.strip() for the whitespace of the model
RECURSIVE Strip(_)
Strip(s) ==
    IF s = <<>> THEN s
    ELSE IF IsSpace(s[1]) THEN Strip(Tail(s))
    ELSE IF IsSpace(s[Len(s)]) THEN Strip(SubSeq(s, 1, Len(s) - 1))
    ELSE s

\* str.split(sep) for a one-character separator
RECURSIVE Split(_, _)
Split(s, sep) ==
    IF \A i \in DOMAIN s : s[i] # sep THEN << s >>
    ELSE LET i == CHOOSE k \in DOMAIN s :
                      s[k] = sep /\ \A j \in 1..(k - 1) : s[j] # sep
         IN  << SubSeq(s, 1, i - 1) >> \o Split(SubSeq(s, i + 1, Len(s)), sep)

\* the value of a run of decimal digits
RECURSIVE DigitsVal(_)
DigitsVal(s) ==
    IF s = <<>> THEN 0
    ELSE DigitsVal(SubSeq(s, 1, Len(s) - 1)) * 10 + (IndexOf(s[Len(s)], Digits) - 1)

IsDigits(s) == Len(s) > 0 /\ \A i \in DOMAIN s : IsDigit(s[i])

\* int(s): an optional sign and decimal digits; anything else raises ValueError
ParseInt(s) ==
    LET signed == Len(s) > 0 /\ s[1] \in {"+", "-"}
        body   == IF signed THEN Tail(s) ELSE s
    IN  IF IsDigits(body)
        THEN [ok |-> TRUE,
              val |-> IF signed /\ s[1] = "-" THEN 0 - DigitsVal(body)
                      ELSE DigitsVal(body)]
        ELSE [ok |-> FALSE, val |-> 0]

\* n as w decimal digits, zero padded ("%04d", "%02d")
RECURSIVE Pad(_, _)
Pad(n, w) ==
    IF w = 0 THEN <<>> ELSE Pad(n \div 10, w - 1) \o << Digits[(n % 10) + 1] >>

Abs(n) == IF n < 0 THEN 0 - n ELSE n
Min(a, b) == IF b < a THEN b ELSE a

-----------------------------------------------------------------------------
(* Dates.                                                                  *)

Date(y, m, d) == [year |-> y, month |-> m, day |-> d]

\* calendar.monthrange(year, month)[1]
monthrange(year, month) ==
    IF month = 2
    THEN IF year % 4 = 0 /\ (year % 100 # 0 \/ year % 400 = 0) THEN 29 ELSE 28
    ELSE IF month \in {4, 6, 9, 11} THEN 30 ELSE 31

\* date.isoformat()
isoformat(date) ==
    Pad(date.year, 4) \o <<"-">> \o Pad(date.month, 2) \o <<"-">> \o Pad(date.day, 2)

\* datetime.datetime.strptime(s, "%Y-%m-%d").date(): [ok, date]
strptime(s) ==
    LET f == Split(s, "-")
        y == DigitsVal(f[1])
        m == DigitsVal(f[2])
        d == DigitsVal(f[3])
    IN  IF /\ Len(f) = 3
           /\ IsDigits(f[1]) /\ Len(f[1]) = 4
           /\ IsDigits(f[2]) /\ Len(f[2]) \in {1, 2}
           /\ IsDigits(f[3]) /\ Len(f[3]) \in {1, 2}
           /\ y >= 1
           /\ m \in 1..12
           /\ d \in 1..monthrange(y, m)
        THEN [ok |-> TRUE, date |-> Date(y, m, d)]
        ELSE [ok |-> FALSE, date |-> Date(1, 1, 1)]

\* the order of dates
DateLess(a, b) ==
    \/ a.year < b.year
    \/ a.year = b.year /\ a.month < b.month
    \/ a.year = b.year /\ a.month = b.month /\ a.day < b.day

-----------------------------------------------------------------------------
(* Row.                                                                    *)

S_incoming == <<"i","n","c","o","m","i","n","g">>
S_outgoing == <<"o","u","t","g","o","i","n","g">>
S_months == <<"m","o","n","t","h","s">>
S_child == <<" ","!","c","h","i","l","d">>

NoRow == [value |-> 0, date |-> Date(1, 1, 1), comment |-> <<>>, hashtag |-> None]

\* the last index of the run of non-whitespace characters that holds index i
RECURSIVE EndOfRun(_, _)
EndOfRun(s, i) ==
    IF i < Len(s) /\ ~IsSpace(s[i + 1]) THEN EndOfRun(s, i + 1) ELSE i

\* re.compile(x+'([a-zA-Z]\S*)').findall(s), scanning from index i
RECURSIVE FindAll(_, _, _)
FindAll(s, x, i) ==
    IF i >= Len(s) THEN <<>>
    ELSE IF s[i] = x /\ IsAlpha(s[i + 1])
         THEN LET j == EndOfRun(s, i + 1)
              IN  << SubSeq(s, i + 1, j) >> \o FindAll(s, x, j + 1)
         ELSE FindAll(s, x, i + 1)

\* Row._xtag that takes the first of several tags instead of raising
XtagTakesFirst(comment, x) ==
    LET all_tags == FindAll(comment, x, 1)
    IN  IF Len(all_tags) = 0 THEN [err |-> "", tag |-> None]
        ELSE [err |-> "", tag |-> all_tags[1]]

\* Row._xtag on a comment: [err, tag]
_xtag(comment, x) ==
    LET all_tags == FindAll(comment, x, 1)
    IN  IF Len(all_tags) > 1 THEN [err |-> "ValueError: multiple tags", tag |-> None]
        ELSE IF Len(all_tags) = 0 THEN [err |-> "", tag |-> None]
        ELSE [err |-> "", tag |-> all_tags[1]]

\* Row.bangtag
bangtag(self) == _xtag(self.comment, "!")

\* Row.__new__ that does not invert the value of an outgoing record
RowNewKeepsSign(value, date, comment, direction) ==
    LET parsed == strptime(Strip(date))
        hash   == _xtag(comment, "#")
    IN  IF ~parsed.ok THEN [err |-> "ValueError: date", row |-> NoRow]
        ELSE IF direction \notin {S_incoming, S_outgoing}
             THEN [err |-> "ValueError: direction", row |-> NoRow]
        ELSE IF value < 0 THEN [err |-> "ValueError: negative", row |-> NoRow]
        ELSE IF hash.err # "" THEN [err |-> hash.err, row |-> NoRow]
        ELSE [err |-> "",
              row |-> [value |-> value, date |-> parsed.date,
                       comment |-> comment, hashtag |-> hash.tag]]

\* Row.__new__(cls, value, date, comment, direction): [err, row].  The value
\* is a number already (Decimal() of a number is that number).
RowNew(value, date, comment, direction) ==
    LET parsed == strptime(Strip(date))
        signed == IF direction = S_outgoing THEN 0 - value ELSE value
        hash   == _xtag(comment, "#")
    IN  IF ~parsed.ok THEN [err |-> "ValueError: date", row |-> NoRow]
        ELSE IF direction \notin {S_incoming, S_outgoing}
             THEN [err |-> "ValueError: direction", row |-> NoRow]
        ELSE IF value < 0 THEN [err |-> "ValueError: negative", row |-> NoRow]
        ELSE IF hash.err # "" THEN [err |-> hash.err, row |-> NoRow]
        ELSE [err |-> "",
              row |-> [value |-> signed, date |-> parsed.date,
                       comment |-> comment, hashtag |-> hash.tag]]

\* Row.direction
direction(self) == IF self.value < 0 THEN S_outgoing ELSE S_incoming

\* Row.month
month(self) == Pad(self.date.year, 4) \o <<"-">> \o Pad(self.date.month, 2)

\* the two while loops as a single 'if' each
CarryOnce(year, mon) ==
    IF mon > 12 THEN << year + 1, mon - 12 >>
    ELSE IF mon < 1 THEN << year - 1, mon + 12 >>
    ELSE << year, mon >>

\* the two while loops of Row._month_add
RECURSIVE CarryYears(_, _)
CarryYears(year, mon) ==
    IF mon > 12 THEN CarryYears(year + 1, mon - 12)
    ELSE IF mon < 1 THEN CarryYears(year - 1, mon + 12)
    ELSE << year, mon >>

\* datetime.MINYEAR and datetime.MAXYEAR: datetime.date(year, month, day)
\* raises ValueError for a year outside them
MINYEAR == 1
MAXYEAR == 9999

NoDate == Date(0, 0, 0)

\* Row._month_add that takes every month to have 28 days
MonthAddShortMonths(date, incr) ==
    IF incr = 0 THEN [err |-> "", date |-> date]
    ELSE LET ym == CarryYears(date.year, date.month + incr)
         IN  IF ym[1] < MINYEAR \/ ym[1] > MAXYEAR
             THEN [err |-> "ValueError: year is out of range", date |-> NoDate]
             ELSE [err |-> "", date |-> Date(ym[1], ym[2], Min(date.day, 28))]

\* Row._month_add(date, incr): [err, date]
_month_add(date, incr) ==
    IF incr = 0 THEN [err |-> "", date |-> date]
    ELSE LET ym == CarryYears(date.year, date.month + incr)
         IN  IF ym[1] < MINYEAR \/ ym[1] > MAXYEAR
             THEN [err |-> "ValueError: year is out of range", date |-> NoDate]
             ELSE [err |-> "",
                   date |-> Date(ym[1], ym[2],
                                 Min(date.day, monthrange(ym[1], ym[2])))]

\* the first failure among the results of _month_add, or all the dates
CollectDates(added) ==
    IF \E i \in DOMAIN added : added[i].err # ""
    THEN [err   |-> added[CHOOSE i \in DOMAIN added :
                              added[i].err # ""
                              /\ \A j \in 1..(i - 1) : added[j].err = ""].err,
          dates |-> <<>>]
    ELSE [err |-> "", dates |-> [ i \in DOMAIN added |-> added[i].date ]]

\* Row._split_dates that steps each date from the one before it
RECURSIVE ChainDates(_, _)
ChainDates(date, n) ==
    IF n <= 0 THEN <<>>
    ELSE << [err |-> "", date |-> date] >> \o ChainDates(_month_add(date, 1).date, n - 1)

SplitDatesChained(self) ==
    LET t      == bangtag(self)
        fields == Split(t.tag, ":")
        n      == Len(fields)
        first  == ParseInt(fields[2])
        second == ParseInt(fields[3])
        start  == IF n = 3 THEN first.val ELSE 0
        end    == IF n = 3 THEN first.val + second.val ELSE first.val
    IN  IF t.err # "" THEN [err |-> t.err, dates |-> <<>>]
        ELSE IF t.tag = None THEN [err |-> "", dates |-> << self.date >>]
        ELSE IF fields[1] # S_months THEN [err |-> "", dates |-> << self.date >>]
        ELSE IF n < 2 \/ n > 3
             THEN [err |-> "ValueError: months fields", dates |-> <<>>]
        ELSE IF ~first.ok \/ (n = 3 /\ ~second.ok)
             THEN [err |-> "ValueError: int", dates |-> <<>>]
        ELSE IF _month_add(self.date, start).err # ""
             THEN [err |-> _month_add(self.date, start).err, dates |-> <<>>]
        ELSE CollectDates(ChainDates(_month_add(self.date, start).date, end - start))

\* Row._split_dates: [err, dates]
_split_dates(self) ==
    LET t      == bangtag(self)
        fields == Split(t.tag, ":")
        n      == Len(fields)
        first  == ParseInt(fields[2])
        second == ParseInt(fields[3])
        start  == IF n = 3 THEN first.val ELSE 0
        end    == IF n = 3 THEN first.val + second.val ELSE first.val
    IN  IF t.err # "" THEN [err |-> t.err, dates |-> <<>>]
        ELSE IF t.tag = None THEN [err |-> "", dates |-> << self.date >>]
        ELSE IF fields[1] # S_months THEN [err |-> "", dates |-> << self.date >>]
        ELSE IF n < 2 \/ n > 3
             THEN [err |-> "ValueError: months fields", dates |-> <<>>]
        ELSE IF ~first.ok \/ (n = 3 /\ ~second.ok)
             THEN [err |-> "ValueError: int", dates |-> <<>>]
        ELSE CollectDates([ i \in 1..(end - start) |->
                                _month_add(self.date, start + i - 1) ])

\* the first failure among the results of Row(...), or all the rows
Collect(made) ==
    IF \E i \in DOMAIN made : made[i].err # ""
    THEN [err  |-> made[CHOOSE i \in DOMAIN made :
                            made[i].err # "" /\ \A j \in 1..(i - 1) : made[j].err = ""].err,
          rows |-> <<>>]
    ELSE [err |-> "", rows |-> [ i \in DOMAIN made |-> made[i].row ]]

\* sum(rows) adding the magnitudes of the values
RECURSIVE SumMadeUnsigned(_)
SumMadeUnsigned(made) ==
    IF made = <<>> THEN 0 ELSE Abs(made[1].row.value) + SumMadeUnsigned(Tail(made))

\* sum(rows) over the results of Row(...): Row.__radd__ adds the signed values
RECURSIVE SumMade(_)
SumMade(made) ==
    IF made = <<>> THEN 0 ELSE made[1].row.value + SumMade(Tail(made))

\* the loop of method 'simple' with the remainder given to no child
SimpleRowsDropRemainder(self, dates, comment, each_value) ==
    [ i \in DOMAIN dates |->
        RowNew(each_value * 100, isoformat(dates[i]), comment, direction(self)) ]

\* autosplit, method 'simple': the loop that builds the child rows
SimpleRows(self, dates, comment, each_value) ==
    LET remainder == Abs(self.value) - each_value * 100 * Len(dates)
    IN  [ i \in DOMAIN dates |->
            RowNew(each_value * 100 + (IF i = 1 THEN remainder ELSE 0),
                   isoformat(dates[i]), comment, direction(self)) ]

\* int(each_value * percent) with percent = 1-min(28, day-1)/28.0.  The float
\* product falls just below the exact integer for the pairs (each_value,
\* min(28, day-1)) of FloatShort; this table is complete for each_value < 42.
FloatShort == { <<14, 18>>, <<14, 26>>, <<28, 18>>, <<28, 25>>, <<28, 26>>, <<28, 27>> }
FirstShare(each_value, day) ==
    LET k     == Min(28, day - 1)
        exact == (each_value * (28 - k)) \div 28
    IN  IF << each_value, k >> \in FloatShort THEN exact - 1 ELSE exact

\* autosplit, method 'proportional': the while loop that fills full months
RECURSIVE BodyLoop(_, _, _, _, _, _, _)
BodyLoop(value, dates, date, made, each_value, comment, dir) ==
    IF value >= each_value * 100 /\ Len(dates) > 0
    THEN BodyLoop(value - each_value * 100, Tail(dates), Head(dates),
                  Append(made, RowNew(each_value * 100, isoformat(Head(dates)),
                                      comment, dir)),
                  each_value, comment, dir)
    ELSE [value |-> value, dates |-> dates, date |-> date, made |-> made]

\* a non-negative int as decimal digits
RECURSIVE IntStr(_)
IntStr(n) ==
    IF n < 10 THEN << Digits[n + 1] >> ELSE IntStr(n \div 10) \o << Digits[(n % 10) + 1] >>

\* str() of a non-negative Decimal given in hundredths.  Decimal prints up to
\* 28 significant digits; the model prints two decimals, truncated.
DecStr(h) ==
    IntStr(h \div 100) \o (IF h % 100 = 0 THEN <<>> ELSE <<".">> \o Pad(h % 100, 2))

RECURSIVE GCD(_, _)
GCD(a, b) == IF b = 0 THEN a ELSE GCD(b, a % b)

RECURSIVE StripFactor(_, _)
StripFactor(n, f) == IF n % f = 0 THEN StripFactor(n \div f, f) ELSE n

\* whether the Decimal quotient this_value/each_value is exact: the reduced
\* denominator has no prime factor but 2 and 5 (28 digits hold every such
\* quotient of the model).  Otherwise ROUND_DOWN leaves it just below.
ExactQuotient(this_value, each_value) ==
    LET den == (100 * each_value) \div GCD(this_value, 100 * each_value)
    IN  StripFactor(StripFactor(den, 2), 5) = 1

\* "({}% dom={} W{})".format(percent, day, week) for this_value (hundredths)
\* and each_value > 0, where percent = min(1, this_value/each_value),
\* day = percent * 27 + 1 and week = int(day/7)
Annotation(this_value, each_value) ==
    LET full    == this_value >= each_value * 100
        below   == ~ExactQuotient(this_value, each_value)
        percent == IF full THEN 100 ELSE this_value \div each_value
        day     == IF full THEN 2800
                   ELSE IF below /\ (27 * this_value) % each_value = 0
                        THEN (27 * this_value) \div each_value + 99
                        ELSE (27 * this_value) \div each_value + 100
        week    == IF full THEN 4
                   ELSE IF below /\ (27 * this_value + 100 * each_value)
                                        % (700 * each_value) = 0
                        THEN (27 * this_value + 100 * each_value)
                                 \div (700 * each_value) - 1
                        ELSE (27 * this_value + 100 * each_value)
                                 \div (700 * each_value)
    IN  <<"(">> \o DecStr(percent) \o <<"%", " ", "d", "o", "m", "=">> \o DecStr(day)
        \o <<" ", "W">> \o IntStr(week) \o <<")">>

\* autosplit, method 'proportional'
Proportional(self, dates, comment, each_value) ==
    LET first      == FirstShare(each_value, dates[1].day)
        made1      == << RowNew(first * 100, isoformat(dates[1]), comment,
                                direction(self)) >>
        body       == BodyLoop(self.value - first * 100, Tail(dates), dates[1], made1,
                               each_value, comment, direction(self))
        after      == _month_add(body.date, 1)
        date       == IF Len(body.dates) > 0 THEN Head(body.dates) ELSE after.date
        this_value == Abs(SumMade(body.made) - self.value)
        last       == RowNew(this_value,
                             isoformat(Date(date.year, date.month, 1)),
                             comment \o Annotation(this_value, each_value),
                             direction(self))
    IN  IF Collect(body.made).err # "" THEN Collect(body.made)
        ELSE IF Len(body.dates) = 0 /\ after.err # ""
             THEN [err |-> after.err, rows |-> <<>>]
        ELSE IF each_value = 0 THEN [err |-> "DivisionByZero", rows |-> <<>>]
        ELSE Collect(Append(body.made, last))

\* Row.autosplit without the 'no splitting needed' return of method 'simple'
AutosplitAlwaysSplits(self, meth) ==
    LET sd             == _split_dates(self)
        dates          == sd.dates
        comment        == self.comment \o S_child
        count_children == Len(dates)
        each_value     == Abs(self.value) \div (100 * count_children)
    IN  IF sd.err # "" THEN [err |-> sd.err, rows |-> <<>>]
        ELSE IF count_children < 1
             THEN [err |-> "ValueError: would divide by zero", rows |-> <<>>]
        ELSE IF meth = "simple"
             THEN Collect(SimpleRows(self, dates, comment, each_value))
        ELSE IF meth = "proportional"
             THEN Proportional(self, dates, comment, each_value)
        ELSE [err |-> "ValueError: unknown splitter method name", rows |-> <<>>]

\* Row.autosplit(method): [err, rows]
autosplit(self, meth) ==
    LET sd             == _split_dates(self)
        dates          == sd.dates
        comment        == self.comment \o S_child
        count_children == Len(dates)
        each_value     == Abs(self.value) \div (100 * count_children)
    IN  IF sd.err # "" THEN [err |-> sd.err, rows |-> <<>>]
        ELSE IF count_children < 1
             THEN [err |-> "ValueError: would divide by zero", rows |-> <<>>]
        ELSE IF meth = "simple"
             THEN IF Len(dates) = 1 /\ dates[1] = self.date
                  THEN [err |-> "", rows |-> << self >>]
                  ELSE Collect(SimpleRows(self, dates, comment, each_value))
        ELSE IF meth = "proportional"
             THEN Proportional(self, dates, comment, each_value)
        ELSE [err |-> "ValueError: unknown splitter method name", rows |-> <<>>]

-----------------------------------------------------------------------------
(* The filter evaluator.                                                   *)

S_None == <<"N","o","n","e">>
S_value == <<"v","a","l","u","e">>
S_date == <<"d","a","t","e">>
S_comment == <<"c","o","m","m","e","n","t">>
S_hashtag == <<"h","a","s","h","t","a","g">>
S_direction == <<"d","i","r","e","c","t","i","o","n">>
S_month == <<"m","o","n","t","h">>
S_rel_months == <<"r","e","l","_","m","o","n","t","h","s">>
S_bangtag == <<"b","a","n","g","t","a","g">>

\* the days from the 1st of month (y1, m1) to the 1st of the later (y2, m2)
RECURSIVE DaysToMonth(_, _, _, _)
DaysToMonth(y1, m1, y2, m2) ==
    IF y1 = y2 /\ m1 = m2 THEN 0
    ELSE monthrange(y1, m1)
         + DaysToMonth(IF m1 = 12 THEN y1 + 1 ELSE y1, IF m1 = 12 THEN 1 ELSE m1 + 1,
                       y2, m2)

\* Row.rel_months, with today the date utcnow() yields: int() truncates the
\* days over 28.0 towards zero
rel_months(self, today) ==
    LET this == self.date
    IN  IF this.year * 12 + this.month < today.year * 12 + today.month
        THEN 0 - (DaysToMonth(this.year, this.month, today.year, today.month) \div 28)
        ELSE DaysToMonth(today.year, today.month, this.year, this.month) \div 28

StrValue(s) == [err |-> "", kind |-> "str", str |-> s, num |-> 0]
NumValue(n) == [err |-> "", kind |-> "num", str |-> <<>>, num |-> n]
NoValue(e) == [err |-> e, kind |-> "", str |-> <<>>, num |-> 0]

\* Row._getvalue(field) for the attributes of the model: a number (Decimal
\* or int, in hundredths) or a str; any other name is taken to be no
\* attribute of Row
_getvalue(self, field, today) ==
    IF field = S_value THEN NumValue(self.value)
    ELSE IF field = S_date THEN StrValue(isoformat(self.date))
    ELSE IF field = S_comment THEN StrValue(self.comment)
    ELSE IF field = S_hashtag
         THEN StrValue(IF self.hashtag = None THEN S_None ELSE self.hashtag)
    ELSE IF field = S_direction THEN StrValue(direction(self))
    ELSE IF field = S_month THEN StrValue(month(self))
    ELSE IF field = S_rel_months THEN NumValue(rel_months(self, today) * 100)
    ELSE IF field = S_bangtag
         THEN IF bangtag(self).err # "" THEN NoValue(bangtag(self).err)
              ELSE StrValue(IF bangtag(self).tag = None THEN S_None
                            ELSE bangtag(self).tag)
    ELSE NoValue("AttributeError")

IsWordChar(c) == IsAlpha(c) \/ IsDigit(c) \/ c = "_"
IsOpChar(c) == c \in {"=", "!", "<", ">", "~"}

\* the last index of the run of word characters that starts at index i
RECURSIVE WordRun(_, _)
WordRun(s, i) ==
    IF i <= Len(s) /\ IsWordChar(s[i]) THEN WordRun(s, i + 1) ELSE i - 1

\* re.match("([a-z0-9_]+)([=!<>~]{1,2})(.*)", string, re.I): [ok, field, op, value]
MatchFilter(string) ==
    LET f     == WordRun(string, 1)
        oplen == IF f + 2 <= Len(string) /\ IsOpChar(string[f + 2]) THEN 2 ELSE 1
    IN  IF f >= 1 /\ f + 1 <= Len(string) /\ IsOpChar(string[f + 1])
        THEN [ok    |-> TRUE,
              field |-> SubSeq(string, 1, f),
              op    |-> SubSeq(string, f + 1, f + oplen),
              value |-> SubSeq(string, f + oplen + 1, Len(string))]
        ELSE [ok |-> FALSE, field |-> <<>>, op |-> <<>>, value |-> <<>>]

\* float(s) in hundredths: [ok, val].  The model reads an optional sign,
\* digits and at most two decimals, and is exact for the decimals a float
\* holds exactly (.0, .25, .5, .75); other literals are left out of the
\* inputs.
ParseFloat(s) ==
    LET signed == Len(s) > 0 /\ s[1] \in {"+", "-"}
        body   == IF signed THEN Tail(s) ELSE s
        parts  == Split(body, ".")
        whole  == parts[1]
        frac   == IF Len(parts) = 2 THEN parts[2] ELSE <<>>
        mag    == DigitsVal(whole) * 100
                  + (IF Len(frac) = 1 THEN DigitsVal(frac) * 10 ELSE DigitsVal(frac))
    IN  IF /\ Len(parts) \in {1, 2}
           /\ \A i \in DOMAIN whole : IsDigit(whole[i])
           /\ \A i \in DOMAIN frac : IsDigit(frac[i])
           /\ Len(whole) + Len(frac) > 0
           /\ Len(frac) <= 2
        THEN [ok |-> TRUE, val |-> IF signed /\ s[1] = "-" THEN 0 - mag ELSE mag]
        ELSE [ok |-> FALSE, val |-> 0]

\* the order of str
RECURSIVE StrLess(_, _)
StrLess(a, b) ==
    IF b = <<>> THEN FALSE
    ELSE IF a = <<>> THEN TRUE
    ELSE IF a[1] = b[1] THEN StrLess(Tail(a), Tail(b))
    ELSE Ord(a[1]) < Ord(b[1])

\* re.search(pattern, text, re.I) for the patterns of the model: literal
\* characters after an optional '^'
Search(pattern, text) ==
    LET anchored == Len(pattern) > 0 /\ pattern[1] = "^"
        lit      == Lower(IF anchored THEN Tail(pattern) ELSE pattern)
        t        == Lower(text)
    IN  \E i \in 1..(Len(t) - Len(lit) + 1) :
            /\ anchored => i = 1
            /\ SubSeq(t, i, i + Len(lit) - 1) = lit

Matched(b) == [err |-> "", match |-> b]
Raised(e) == [err |-> e, match |-> FALSE]

\* Row.filter(string): [err, match], match for 'return self'
filter(self, string, today) ==
    LET m           == MatchFilter(string)
        value_now   == _getvalue(self, m.field, today)
        asfloat     == ParseFloat(m.value)
        bothnum     == value_now.kind = "num" /\ asfloat.ok
        bothstr     == value_now.kind = "str" /\ ~asfloat.ok
        equal       == \/ bothnum /\ value_now.num = asfloat.val
                       \/ bothstr /\ value_now.str = m.value
    IN  IF ~m.ok THEN Raised("ValueError: filters must be <key><op><value>")
        ELSE IF value_now.err # "" THEN Raised(value_now.err)
        ELSE IF m.op = <<"=", "=">> THEN Matched(equal)
        ELSE IF m.op = <<"!", "=">> THEN Matched(~equal)
        ELSE IF m.op = <<">">>
             THEN IF bothnum THEN Matched(value_now.num > asfloat.val)
                  ELSE IF bothstr THEN Matched(StrLess(m.value, value_now.str))
                  ELSE Raised("TypeError")
        ELSE IF m.op = <<"<">>
             THEN IF bothnum THEN Matched(value_now.num < asfloat.val)
                  ELSE IF bothstr THEN Matched(StrLess(value_now.str, m.value))
                  ELSE Raised("TypeError")
        ELSE IF m.op = <<"=", "~">>
             THEN IF bothstr THEN Matched(Search(m.value, value_now.str))
                  ELSE Raised("TypeError")
        ELSE Raised("ValueError: unknown filter operation")

\* the inner loop that tests the first filter string alone
RECURSIVE RowPassesFirstOnly(_, _, _)
RowPassesFirstOnly(r, strings, today) ==
    IF strings = <<>> THEN Matched(TRUE)
    ELSE LET f == filter(r, Head(strings), today)
         IN  IF f.err # "" THEN f ELSE Matched(f.match)

\* the inner loop of apply_filter_strings over the filters for one row:
\* [err, match]
RECURSIVE RowPasses(_, _, _)
RowPasses(r, strings, today) ==
    IF strings = <<>> THEN Matched(TRUE)
    ELSE LET f == filter(r, Head(strings), today)
         IN  IF f.err # "" THEN f
             ELSE IF ~f.match THEN Matched(FALSE)
             ELSE RowPasses(r, Tail(strings), today)

\* the outer loop of apply_filter_strings over the rows: [err, rows]
RECURSIVE FilterLoop(_, _, _)
FilterLoop(strings, rs, today) ==
    IF rs = <<>> THEN [err |-> "", rows |-> <<>>]
    ELSE LET p    == RowPasses(Head(rs), strings, today)
             rest == FilterLoop(strings, Tail(rs), today)
         IN  IF p.err # "" THEN [err |-> p.err, rows |-> <<>>]
             ELSE IF rest.err # "" THEN rest
             ELSE [err  |-> "",
                   rows |-> IF p.match THEN << Head(rs) >> \o rest.rows
                            ELSE rest.rows]

\* apply_filter_strings(filter_strings, rows), all of the generator consumed
apply_filter_strings(filters, rs, today) ==
    FilterLoop(IF filters.is_none THEN <<>> ELSE filters.strings, rs, today)

-----------------------------------------------------------------------------
(* The grid accumulator.                                                   *)

S_unknown == <<"u","n","k","n","o","w","n">>
S_total == <<"t","o","t","a","l">>

EmptyGrid == [months |-> {}, tags |-> {}, grid |-> <<>>, totals |-> (S_total :> 0)]

\* one pass of the loop of grid_accumulate, the bucket of the grid assigned
\* row.value instead of adding it
GridStepAssigns(acc, r) ==
    LET mon    == month(r)
        tag    == Capitalize(IF r.hashtag = None THEN S_unknown ELSE r.hashtag)
        grid1  == IF tag \in DOMAIN acc.grid THEN acc.grid
                  ELSE acc.grid @@ (tag :> <<>>)
        grid2  == IF mon \in DOMAIN grid1[tag] THEN grid1
                  ELSE [grid1 EXCEPT ![tag] =
                           @ @@ (mon :> [sum |-> 0, last |-> Date(1970, 1, 1)])]
        tot1   == IF mon \in DOMAIN acc.totals THEN acc.totals
                  ELSE acc.totals @@ (mon :> 0)
        bucket == grid2[tag][mon]
    IN  [months |-> acc.months \cup {mon},
         tags   |-> acc.tags \cup {tag},
         grid   |-> [grid2 EXCEPT ![tag] =
                        [@ EXCEPT ![mon] =
                            [sum  |-> r.value,
                             last |-> IF DateLess(bucket.last, r.date) THEN r.date
                                      ELSE bucket.last]]],
         totals |-> [tot1 EXCEPT ![mon] = @ + r.value,
                                 ![S_total] = @ + r.value]]

\* one pass of the loop of grid_accumulate, the buckets adding row.value
GridStep(acc, r) ==
    LET mon    == month(r)
        tag    == Capitalize(IF r.hashtag = None THEN S_unknown ELSE r.hashtag)
        grid1  == IF tag \in DOMAIN acc.grid THEN acc.grid
                  ELSE acc.grid @@ (tag :> <<>>)
        grid2  == IF mon \in DOMAIN grid1[tag] THEN grid1
                  ELSE [grid1 EXCEPT ![tag] =
                           @ @@ (mon :> [sum |-> 0, last |-> Date(1970, 1, 1)])]
        tot1   == IF mon \in DOMAIN acc.totals THEN acc.totals
                  ELSE acc.totals @@ (mon :> 0)
        bucket == grid2[tag][mon]
    IN  [months |-> acc.months \cup {mon},
         tags   |-> acc.tags \cup {tag},
         grid   |-> [grid2 EXCEPT ![tag] =
                        [@ EXCEPT ![mon] =
                            [sum  |-> bucket.sum + r.value,
                             last |-> IF DateLess(bucket.last, r.date) THEN r.date
                                      ELSE bucket.last]]],
         totals |-> [tot1 EXCEPT ![mon] = @ + r.value,
                                 ![S_total] = @ + r.value]]

\* grid_accumulate(rows): [months, tags, grid, totals]
RECURSIVE GridLoop(_, _)
GridLoop(acc, rs) ==
    IF rs = <<>> THEN acc ELSE GridLoop(GridStep(acc, Head(rs)), Tail(rs))

grid_accumulate(rs) == GridLoop(EmptyGrid, rs)

-----------------------------------------------------------------------------
(* The inputs of the model.                                                *)

SignedStr(n) == IF n < 0 THEN <<"-">> \o IntStr(0 - n) ELSE IntStr(n)

\* raw magnitudes in hundredths: one negative, and 0, 0.5, 1, ...
RawValues == { 0 - 50 } \cup { 50 * h : h \in 0..MaxHalves }

\* month ends that clamp, a leap day, year ends that carry, days that pro-rate
SplitDates == { Date(2023, 1, 1),  Date(2023, 1, 31), Date(2023, 2, 2),
                Date(2023, 12, 15), Date(2024, 1, 31), Date(2024, 2, 29),
                Date(2024, 3, 30), Date(2024, 12, 31) }

RawDates == { isoformat(d) : d \in SplitDates }
            \cup { <<"2","0","2","3","-","0","2","-","3","0">>,
                   <<"2","0","2","4","/","0","1","/","1","5">> }

Offsets == { 0 - 1, 0, 1 }

MonthsTag == <<"!">> \o S_months

\* the directives: well formed, with a count below 1, malformed, and others
Directives ==
    { MonthsTag \o <<":">> \o SignedStr(n) : n \in 0..MaxCount }
    \cup { MonthsTag \o <<":">> \o SignedStr(o) \o <<":">> \o SignedStr(n) :
               o \in Offsets, n \in 1..MaxCount }
    \cup { <<>>,
           MonthsTag,
           MonthsTag \o <<":","1",":","2",":","3">>,
           MonthsTag \o <<":","x">>,
           MonthsTag \o <<":","1",":","-","1">>,
           <<"!","f","o","o">>,
           <<"!","c","h","i","l","d">>,
           <<"!","f","o","o"," ","!","b","a","r">> }

Texts == { <<>>, <<"#","R","e","n","t"," ","x">> }

RawComments ==
    { IF t = <<>> \/ d = <<>> THEN t \o d ELSE t \o <<" ">> \o d :
          t \in Texts, d \in Directives }
    \cup { <<"#","a"," ","#","b">> }

RawDirections == { S_incoming, S_outgoing, <<"a","u","t","o">> }

RawInputs == [value : RawValues, date : RawDates, comment : RawComments,
              direction : RawDirections]

Methods == { "simple", "proportional", "weekly" }

NoResult == [err |-> "none", rows |-> <<>>]
NoFilters == [is_none |-> TRUE, strings |-> <<>>]

-----------------------------------------------------------------------------
(* The splitter: a raw tuple becomes a Row, the Row is split, and one of   *)
(* the records it returns is passed through the splitter again.            *)

NoMonth == [err |-> "none", date |-> NoDate]

MonthIdle ==
    /\ month_date = NoDate
    /\ month_incr = 0
    /\ month_there = NoMonth
    /\ month_back = NoMonth

Idle ==
    /\ rows = <<>>
    /\ filter_strings = NoFilters
    /\ now = Date(1970, 1, 1)
    /\ result = NoResult
    /\ months = {}
    /\ tags = {}
    /\ grid = <<>>
    /\ totals = <<>>

Init ==
    /\ pc = "start"
    /\ raw \in RawInputs
    /\ row = [err |-> "none", row |-> NoRow]
    /\ method = ""
    /\ out = NoResult
    /\ child = 0
    /\ again = NoResult
    /\ Idle
    /\ MonthIdle

NewRow ==
    /\ pc = "start"
    /\ row' = RowNew(raw.value, raw.date, raw.comment, raw.direction)
    /\ pc' = IF row'.err = "" THEN "row" ELSE "rejected"
    /\ UNCHANGED <<raw, method, out, child, again, rows, filter_strings, now,
                   result, months, tags, grid, totals, monthvars>>

Autosplit(meth) ==
    /\ pc = "row"
    /\ method' = meth
    /\ out' = autosplit(row.row, meth)
    /\ pc' = "split"
    /\ UNCHANGED <<raw, row, child, again, rows, filter_strings, now,
                   result, months, tags, grid, totals, monthvars>>

Resplit(i) ==
    /\ pc = "split"
    /\ out.err = ""
    /\ i \in DOMAIN out.rows
    /\ child' = i
    /\ again' = autosplit(out.rows[i], method)
    /\ pc' = "resplit"
    /\ UNCHANGED <<raw, row, method, out, rows, filter_strings, now,
                   result, months, tags, grid, totals, monthvars>>

Next ==
    \/ NewRow
    \/ \E meth \in Methods : Autosplit(meth)
    \/ \E i \in 1..(MaxCount + 2) : Resplit(i)

Spec == Init /\ [][Next]_vars

-----------------------------------------------------------------------------
(* The filter: a sequence of records and a filter set are given to        *)
(* apply_filter_strings, and the generator is consumed.                    *)

SeqsUpTo(S, n) == UNION { [1..k -> S] : k \in 0..n }

RowsOf(raws) ==
    { RowNew(r.value, r.date, r.comment, r.direction).row : r \in raws }

Raw(v, d, c, dir) == [value |-> v, date |-> d, comment |-> c, direction |-> dir]

FilterRows == RowsOf({
    Raw(250, isoformat(Date(2024, 1, 31)), <<"#","d","u","e","s",":","a","n","n"," ","x">>, S_incoming),
    Raw(100, isoformat(Date(2024, 3, 30)), <<"#","b","i","l","l","s",":","r","e","n","t"," ","!","m","o","n","t","h","s",":","2">>, S_outgoing),
    Raw(0, isoformat(Date(2023, 12, 15)), <<"m","i","s","c">>, S_incoming),
    Raw(350, isoformat(Date(2024, 2, 29)), <<"#","D","u","e","s",":","b","o","b">>, S_outgoing) })

\* predicates that evaluate, one on an unknown field, one with an unknown
\* operator, one that compares a str with a number
FilterStrings == {
    <<"d","i","r","e","c","t","i","o","n","=","=","o","u","t","g","o","i","n","g">>,
    <<"v","a","l","u","e",">","0">>,
    <<"h","a","s","h","t","a","g","=","~","^","d","u","e","s",":">>,
    <<"r","e","l","_","m","o","n","t","h","s","<","1">>,
    <<"m","o","n","t","h","!","=","2","0","2","4","-","0","1">>,
    <<"a","m","o","u","n","t",">","0">>,
    <<"v","a","l","u","e","=","5">>,
    <<"d","i","r","e","c","t","i","o","n",">","5">> }

FilterSets ==
    { NoFilters }
    \cup { [is_none |-> FALSE, strings |-> fs] : fs \in SeqsUpTo(FilterStrings, MaxFilters) }

Todays == { Date(2024, 2, 29), Date(2024, 12, 31) }

SplitterIdle ==
    /\ raw = Raw(0, <<>>, <<>>, <<>>)
    /\ row = [err |-> "none", row |-> NoRow]
    /\ method = ""
    /\ out = NoResult
    /\ child = 0
    /\ again = NoResult

InitFilter ==
    /\ pc = "rows"
    /\ rows \in SeqsUpTo(FilterRows, MaxRows)
    /\ filter_strings \in FilterSets
    /\ now \in Todays
    /\ result = NoResult
    /\ months = {}
    /\ tags = {}
    /\ grid = <<>>
    /\ totals = <<>>
    /\ SplitterIdle
    /\ MonthIdle

ApplyFilterStrings ==
    /\ pc = "rows"
    /\ result' = apply_filter_strings(filter_strings, rows, now)
    /\ pc' = "filtered"
    /\ UNCHANGED <<raw, row, method, out, child, again, rows, filter_strings, now,
                   months, tags, grid, totals, monthvars>>

NextFilter == ApplyFilterStrings

SpecFilter == InitFilter /\ [][NextFilter]_vars

-----------------------------------------------------------------------------
(* The grid: a sequence of records is given to grid_accumulate.            *)

GridRows == RowsOf({
    Raw(3000, isoformat(Date(2024, 1, 31)), <<"#","r","e","n","t">>, S_incoming),
    Raw(2050, isoformat(Date(2024, 1, 15)), <<"#","R","E","N","T"," ","x">>, S_outgoing),
    Raw(700, isoformat(Date(2024, 2, 29)), <<"#","r","e","n","t">>, S_outgoing),
    Raw(500, isoformat(Date(2024, 2, 29)), <<"x">>, S_incoming),
    Raw(150, isoformat(Date(2024, 1, 31)), <<"#","u","n","k","n","o","w","n">>, S_incoming) })

InitGrid ==
    /\ pc = "rows"
    /\ rows \in SeqsUpTo(GridRows, MaxGridRows)
    /\ filter_strings = NoFilters
    /\ now = Date(1970, 1, 1)
    /\ result = NoResult
    /\ months = {}
    /\ tags = {}
    /\ grid = <<>>
    /\ totals = <<>>
    /\ SplitterIdle
    /\ MonthIdle

GridAccumulate ==
    /\ pc = "rows"
    /\ months' = grid_accumulate(rows).months
    /\ tags' = grid_accumulate(rows).tags
    /\ grid' = grid_accumulate(rows).grid
    /\ totals' = grid_accumulate(rows).totals
    /\ pc' = "accumulated"
    /\ UNCHANGED <<raw, row, method, out, child, again, rows, filter_strings, now,
                   result, monthvars>>

NextGrid == GridAccumulate

SpecGrid == InitGrid /\ [][NextGrid]_vars

-----------------------------------------------------------------------------
(* The proportional splitter: records of either direction, dated on every  *)
(* day of a month, of magnitudes up to MaxWhole, are split in proportion.  *)

\* magnitudes in hundredths: 0, 0.5, 1, ... MaxWhole
PropValues == { 50 * h : h \in 0..(2 * MaxWhole) }

\* every day of a December, so that the later months are of the next year
PropDates == { isoformat(Date(2023, 12, d)) : d \in 1..31 }

\* no directive, a count, and a start before and after the date with a count
PropComments ==
    { <<>> }
    \cup { MonthsTag \o <<":">> \o SignedStr(n) : n \in 1..MaxCount }
    \cup { MonthsTag \o <<":">> \o SignedStr(o) \o <<":", "2">> : o \in {0 - 1, 1} }

PropInputs == [value : PropValues, date : PropDates, comment : PropComments,
               direction : {S_incoming, S_outgoing}]

InitProportional ==
    /\ pc = "start"
    /\ raw \in PropInputs
    /\ row = [err |-> "none", row |-> NoRow]
    /\ method = ""
    /\ out = NoResult
    /\ child = 0
    /\ again = NoResult
    /\ Idle
    /\ MonthIdle

NextProportional == NewRow \/ Autosplit("proportional")

SpecProportional == InitProportional /\ [][NextProportional]_vars

-----------------------------------------------------------------------------
(* The month arithmetic: Row._month_add is applied to a date and an        *)
(* increment, and then to its result and the opposite increment.           *)

\* the first and last years of datetime.date, a century that is no leap year,
\* one that is, a common year and a leap year
MonthYears == { MINYEAR, 1900, 2000, 2023, 2024, MAXYEAR }

\* the first day, and the days some months end on
MonthDays == { 1, 28, 29, 30, 31 }

MonthDates ==
    { dt \in [year : MonthYears, month : 1..12, day : MonthDays] :
          dt.day <= monthrange(dt.year, dt.month) }

MonthIncrs ==
    ((0 - (12 * MaxCarry + 1))..(12 * MaxCarry + 1))
    \cup { 0 - (12 * FarCarry + 5), 0 - 12 * FarCarry, 12 * FarCarry, 12 * FarCarry + 5 }

InitMonths ==
    /\ pc = "date"
    /\ month_date \in MonthDates
    /\ month_incr \in MonthIncrs
    /\ month_there = NoMonth
    /\ month_back = NoMonth
    /\ SplitterIdle
    /\ Idle

MonthAdd ==
    /\ pc = "date"
    /\ month_there' = _month_add(month_date, month_incr)
    /\ pc' = "there"
    /\ UNCHANGED <<raw, row, method, out, child, again, rows, filter_strings, now,
                   result, months, tags, grid, totals, month_date, month_incr,
                   month_back>>

MonthBack ==
    /\ pc = "there"
    /\ month_there.err = ""
    /\ month_back' = _month_add(month_there.date, 0 - month_incr)
    /\ pc' = "back"
    /\ UNCHANGED <<raw, row, method, out, child, again, rows, filter_strings, now,
                   result, months, tags, grid, totals, month_date, month_incr,
                   month_there>>

NextMonths == MonthAdd \/ MonthBack

SpecMonths == InitMonths /\ [][NextMonths]_vars

-----------------------------------------------------------------------------
(* What the properties below say of a record, read off its comment apart   *)
(* from Row._split_dates and Row._month_add.                               *)

BangTags(self) == FindAll(self.comment, "!", 1)
BangFields(self) == Split(BangTags(self)[1], ":")

\* the comment holds one bangtag, a months directive of one or two integers
HasDirective(self) ==
    /\ Len(BangTags(self)) = 1
    /\ BangFields(self)[1] = S_months
    /\ Len(BangFields(self)) \in {2, 3}
    /\ \A i \in 2..Len(BangFields(self)) : ParseInt(BangFields(self)[i]).ok

DirOffset(self) ==
    IF Len(BangFields(self)) = 3 THEN ParseInt(BangFields(self)[2]).val ELSE 0
DirCount(self) == ParseInt(BangFields(self)[Len(BangFields(self))]).val

\* the comment holds no bangtag, or one bangtag that is no months directive
NoDirective(self) ==
    \/ Len(BangTags(self)) = 0
    \/ Len(BangTags(self)) = 1 /\ BangFields(self)[1] # S_months

\* the date n months from date: the month index moves by n, the day is clamped
AddMonths(date, n) ==
    LET index == date.year * 12 + (date.month - 1) + n
        y     == index \div 12
        m     == (index % 12) + 1
    IN  Date(y, m, IF date.day < monthrange(y, m) THEN date.day ELSE monthrange(y, m))

RECURSIVE SumValues(_)
SumValues(rs) == IF rs = <<>> THEN 0 ELSE rs[1].value + SumValues(Tail(rs))

SplitDone == pc \in {"split", "resplit"}
Original == row.row

-----------------------------------------------------------------------------
(* Properties of the splitter, checked under Spec.                         *)

\* C1: a simple split of a record of magnitude m with a months directive of
\* count >= 1 completes; every child but the first has magnitude
\* trunc(m / count), the first has trunc(m / count) plus the remainder
\* m - trunc(m / count) * count, and the signed amounts of the children sum
\* to the signed amount of the record.
C1_SimpleSplitPreservesMoney ==
    (SplitDone /\ method = "simple" /\ HasDirective(Original)
        /\ DirCount(Original) >= 1)
    => LET m     == Abs(Original.value)
           count == DirCount(Original)
           share == (m \div (100 * count)) * 100
       IN  /\ out.err = ""
           /\ \A i \in DOMAIN out.rows :
                  Abs(out.rows[i].value) =
                      IF i = 1 THEN share + (m - share * count) ELSE share
           /\ SumValues(out.rows) = Original.value

\* C1 witness: an outgoing record split in three whose first child carries a
\* remainder.
C1_Witness ==
    /\ SplitDone /\ method = "simple" /\ HasDirective(Original)
    /\ DirCount(Original) = 3
    /\ Original.value < 0
    /\ Len(out.rows) = 3
    /\ out.rows[1].value < out.rows[2].value
    /\ out.rows[2].value < 0

\* C3: Row(m, date, comment, d) with m >= 0 stores +m for incoming and -m for
\* outgoing, and the direction derived from the stored amount is d when m > 0.
C3_SignFollowsDirection ==
    (pc # "start" /\ row.err = "")
    => /\ raw.value >= 0
       /\ raw.direction = S_incoming => row.row.value = raw.value
       /\ raw.direction = S_outgoing => row.row.value = 0 - raw.value
       /\ raw.value > 0 => direction(row.row) = raw.direction

\* C3 witness: an outgoing record of positive magnitude was constructed.
C3_Witness ==
    /\ pc = "row" /\ row.err = ""
    /\ raw.direction = S_outgoing /\ raw.value > 0
    /\ row.row.value < 0

\* C4 as claimed: under either algorithm a record with no months directive
\* comes back as the one-element sequence holding the record itself.
C4_NoDirectiveIsIdentity ==
    (SplitDone /\ method \in {"simple", "proportional"} /\ NoDirective(Original))
    => out = [err |-> "", rows |-> << Original >>]

\* C5 as claimed: a child of a split of a record with a months directive,
\* passed through the splitter again, comes back unchanged and alone.
C5_ChildPassesThrough ==
    (pc = "resplit" /\ HasDirective(Original) /\ out.rows[child] # Original)
    => again = [err |-> "", rows |-> << out.rows[child] >>]

\* C5 amended: a child of a split of a record with a months directive,
\* passed through the splitter again under either algorithm, raises the
\* ValueError of two bangtags, and no record is returned.
C5_ChildIsRefused ==
    (pc = "resplit" /\ HasDirective(Original) /\ out.rows[child] # Original)
    => /\ again.err = "ValueError: multiple tags"
       /\ again.rows = <<>>

\* C5 witness: the second child of a simple split in three was split again.
C5_Witness ==
    /\ pc = "resplit" /\ HasDirective(Original) /\ method = "simple"
    /\ Len(out.rows) = 3 /\ child = 2
    /\ out.rows[child].comment = Original.comment \o S_child
    /\ again.err # ""

\* C6: for a directive months:count or months:offset:count with count >= 1 a
\* simple split returns count records, the k-th (from 0) dated offset + k
\* months from the date of the record, the day clamped for that month alone.
C6_SimpleSplitDates ==
    (SplitDone /\ method = "simple" /\ HasDirective(Original)
        /\ DirCount(Original) >= 1)
    => /\ out.err = ""
       /\ Len(out.rows) = DirCount(Original)
       /\ \A i \in DOMAIN out.rows :
              out.rows[i].date =
                  AddMonths(Original.date, DirOffset(Original) + (i - 1))

\* C6 witness: a record of the 31st split in three, clamped in the second
\* month and back on the 31st in the third.
C6_Witness ==
    /\ SplitDone /\ method = "simple" /\ HasDirective(Original)
    /\ Original.date.day = 31
    /\ Len(out.rows) = 3
    /\ out.rows[2].date.day < 31
    /\ out.rows[3].date.day = 31

\* C7 as claimed: every record a simple split of a record with a directive of
\* count >= 1 returns has the comment of the record followed by ' !child'.
C7_EveryOutputIsMarked ==
    (SplitDone /\ method = "simple" /\ HasDirective(Original)
        /\ DirCount(Original) >= 1 /\ out.err = "")
    => \A i \in DOMAIN out.rows : out.rows[i].comment = Original.comment \o S_child

\* C7 amended: for a directive of count >= 1, a simple split of count 1 and
\* offset 0 returns the record itself, comment unchanged; every other simple
\* split returns records whose comment is the original followed by ' !child';
\* a proportional split that completes returns records with that comment,
\* the last one followed by its annotation.
C7_OutputIsMarkedUnlessUnsplit ==
    (SplitDone /\ HasDirective(Original) /\ DirCount(Original) >= 1 /\ out.err = "")
    => LET marked == Original.comment \o S_child
       IN  /\ (method = "simple" /\ DirCount(Original) = 1 /\ DirOffset(Original) = 0)
               => out.rows = << Original >>
           /\ (method = "simple"
                  /\ ~(DirCount(Original) = 1 /\ DirOffset(Original) = 0))
               => \A i \in DOMAIN out.rows : out.rows[i].comment = marked
           /\ method = "proportional"
               => \A i \in DOMAIN out.rows :
                      IF i < Len(out.rows)
                      THEN out.rows[i].comment = marked
                      ELSE /\ Len(out.rows[i].comment) > Len(marked)
                           /\ SubSeq(out.rows[i].comment, 1, Len(marked)) = marked
                           /\ out.rows[i].comment[Len(marked) + 1] = "("

\* C7 witness: a simple split of count 1 and offset 0 returned the record.
C7_Witness ==
    /\ SplitDone /\ method = "simple" /\ HasDirective(Original)
    /\ DirCount(Original) = 1 /\ DirOffset(Original) = 0
    /\ out = [err |-> "", rows |-> << Original >>]
    /\ Original.value # 0

\* C8 as claimed: every record a split returns, under either algorithm, has
\* the direction of the record split, derived from its stored amount.
C8_ChildrenShareDirection ==
    (SplitDone /\ method \in {"simple", "proportional"} /\ out.err = "")
    => \A i \in DOMAIN out.rows : direction(out.rows[i]) = direction(Original)

-----------------------------------------------------------------------------
(* Properties of the grid accumulator, checked under SpecGrid.             *)

RECURSIVE SumOver(_, _)
SumOver(f, keys) ==
    IF keys = {} THEN 0
    ELSE LET k == CHOOSE x \in keys : TRUE IN f[k] + SumOver(f, keys \ {k})

RECURSIVE SumBuckets(_, _)
SumBuckets(f, keys) ==
    IF keys = {} THEN 0
    ELSE LET k == CHOOSE x \in keys : TRUE IN f[k].sum + SumBuckets(f, keys \ {k})

\* the key of the grid a record is grouped under
TagKey(r) == Capitalize(IF r.hashtag = None THEN S_unknown ELSE r.hashtag)

\* the sum of the amounts of the records of rs grouped under tag
RECURSIVE SumTagged(_, _)
SumTagged(rs, tag) ==
    IF rs = <<>> THEN 0
    ELSE (IF TagKey(rs[1]) = tag THEN rs[1].value ELSE 0) + SumTagged(Tail(rs), tag)

\* C2: grid_accumulate returns totals['total'] equal to the sum of the
\* per-month totals and to the sum of the amounts of the records; and for
\* every tag the sums of its months add up to the amounts of the records
\* grouped under the tag.
C2_GridSumsAgree ==
    pc = "accumulated"
    => /\ totals[S_total] = SumOver(totals, DOMAIN totals \ {S_total})
       /\ totals[S_total] = SumValues(rows)
       /\ DOMAIN totals \ {S_total} = months
       /\ \A r \in Range(rows) : TagKey(r) \in DOMAIN grid
       /\ \A tag \in DOMAIN grid :
              SumBuckets(grid[tag], DOMAIN grid[tag]) = SumTagged(rows, tag)

\* C2 witness: three records under one tag, two of them in one month, one
\* of them outgoing.
C2_Witness ==
    /\ pc = "accumulated"
    /\ Len(rows) = 3
    /\ \A i \in DOMAIN rows : TagKey(rows[i]) = TagKey(rows[1])
    /\ rows[1] # rows[2]
    /\ month(rows[1]) = month(rows[2])
    /\ month(rows[3]) # month(rows[1])
    /\ rows[2].value < 0
    /\ Cardinality(months) = 2

-----------------------------------------------------------------------------
(* Properties of the filter, checked under SpecFilter.                     *)

KnownFields == { S_value, S_date, S_comment, S_hashtag, S_direction, S_month,
                 S_rel_months, S_bangtag }
KnownOps == { <<"=", "=">>, <<"!", "=">>, <<">">>, <<"<">>, <<"=", "~">> }

\* a predicate that names an unknown field or uses an unknown operator
BadPredicate(string) ==
    /\ MatchFilter(string).ok
    /\ \/ MatchFilter(string).field \notin KnownFields
       \/ MatchFilter(string).op \notin KnownOps

\* a predicate of a known field other than bangtag (which raises on a comment
\* of two bangtags) and a known operator whose operands can be compared: any
\* two for == and !=, two numbers or two strs for > and <, two strs for =~
WellFormed(string) ==
    LET m       == MatchFilter(string)
        numeric == m.field \in {S_value, S_rel_months}
        number  == ParseFloat(m.value).ok
    IN  /\ m.ok
        /\ m.field \in KnownFields \ {S_bangtag}
        /\ m.op \in KnownOps
        /\ m.op \in {<<">">>, <<"<">>} => (numeric <=> number)
        /\ m.op = <<"=", "~">> => (~numeric /\ ~number)

Given == IF filter_strings.is_none THEN <<>> ELSE filter_strings.strings

\* C9 as claimed: a filter set that holds a bad predicate, applied to a
\* non-empty sequence of records, ends in an error.
C9_BadPredicateAborts ==
    (pc = "filtered" /\ rows # <<>> /\ \E i \in DOMAIN Given : BadPredicate(Given[i]))
    => result.err # ""

\* the records of rs every predicate of strings matches, in order
RECURSIVE Passing(_, _, _)
Passing(rs, strings, today) ==
    IF rs = <<>> THEN <<>>
    ELSE (IF \A i \in DOMAIN strings : filter(rs[1], strings[i], today).match
          THEN << rs[1] >> ELSE <<>>)
         \o Passing(Tail(rs), strings, today)

-----------------------------------------------------------------------------
(* Properties of the month arithmetic, checked under SpecMonths.           *)

\* the month index of a date
MonthIndex(dt) == dt.year * 12 + dt.month

\* the number of days of a month of the Gregorian calendar
DaysIn(year, mon) ==
    IF mon = 2
    THEN IF year % 400 = 0 \/ (year % 4 = 0 /\ year % 100 # 0) THEN 29 ELSE 28
    ELSE << 31, 28, 31, 30, 31, 30, 31, 31, 30, 31, 30, 31 >>[mon]

\* the year of the month n months from a date
TargetYear(dt, n) == (MonthIndex(dt) - 1 + n) \div 12
TargetMonth(dt, n) == ((MonthIndex(dt) - 1 + n) % 12) + 1

MonthAdded == pc \in {"there", "back"}

\* what C11 says of the result of _month_add
MonthAddResult ==
    /\ month_there.err = ""
    /\ month_there.date.month \in 1..12
    /\ MonthIndex(month_there.date) = MonthIndex(month_date) + month_incr
    /\ month_there.date.day =
           Min(month_date.day,
               DaysIn(month_there.date.year, month_there.date.month))
    /\ month_incr = 0 => month_there.date = month_date

C12_MonthRoundTrip ==
    (pc = "back"
        /\ month_date.day <= DaysIn(month_there.date.year, month_there.date.month))
    => month_back = [err |-> "", date |-> month_date]

\* C12 witness: the 30th taken more than a year away into a month that has a
\* 30th, and back.
C12_Witness ==
    /\ pc = "back"
    /\ Abs(month_incr) > 12
    /\ month_date.day = 30
    /\ month_there.date.day = 30
    /\ month_there.date.month # month_date.month
    /\ month_back = [err |-> "", date |-> month_date]

-----------------------------------------------------------------------------
(* Properties of the proportional split, checked under SpecProportional.   *)

ProportionalDone == pc = "split" /\ method = "proportional" /\ out.err = ""

\* the number of target months of a record
Targets(self) == IF HasDirective(self) THEN DirCount(self) ELSE 1

\* one full share: the magnitude over the count, truncated to whole units
FullShare(self) == (Abs(self.value) \div (100 * Targets(self))) * 100

\* the number of full shares that follow a first record of magnitude first:
\* one for each target month left while a full share is not yet allocated
FullShares(self, first) ==
    Min(Targets(self) - 1, (Abs(self.value) - first) \div FullShare(self))

\* C13: in a proportional split of a record of either direction the first
\* record is followed by one record of a full share for each target month
\* left while the magnitude not yet allocated is at least a full share, and
\* then by a single final record of what is left.
C13_FullSharesWhileTheyLast ==
    ProportionalDone
    => LET first == Abs(out.rows[1].value)
           full  == FullShares(Original, first)
       IN  /\ Len(out.rows) = full + 2
           /\ \A i \in 2..(full + 1) : Abs(out.rows[i].value) = FullShare(Original)
           /\ Abs(out.rows[full + 2].value) =
                  Abs(Original.value) - first - full * FullShare(Original)

\* C14: when a proportional split completes, the signed amounts of the
\* records it returns sum to the signed amount of the record.
C14_ProportionalSplitPreservesMoney ==
    ProportionalDone => SumValues(out.rows) = Original.value

\* C14 witness: an outgoing record dated mid-month, its first record a
\* truncated part of a share and its last record the rest.
C14_Witness ==
    /\ ProportionalDone
    /\ Original.value < 0
    /\ Original.date.day = 15
    /\ Len(out.rows) = 2
    /\ out.rows[1].value < 0
    /\ (0 - out.rows[1].value) * 2 < FullShare(Original)
    /\ out.rows[1].value + out.rows[2].value = Original.value

====
